---- MODULE Spec2Model ----
(***************************************************************************)
(* A model of the connect-scan port prober of rtoolkit                     *)
(* (src/src/commands/portscan.rs): parse_port_range and remote_scan.       *)
(*                                                                         *)
(* Strings are sequences of one-character strings.                         *)
(***************************************************************************)
EXTENDS Integers, Sequences, FiniteSets, TLC

(***************************************************************************)
(* Bounds of the model.                                                    *)
(***************************************************************************)
\* longest port specification enumerated exhaustively over Alphabet
MaxSpecLen == 4
\* largest port number of the ranges that are actually scanned
MaxPort == 3
\* largest value of the --concurrency option that is explored
MaxConcurrency == 2


(***************************************************************************)
(* Characters and strings.                                                 *)
(***************************************************************************)
DigitChars == <<"0", "1", "2", "3", "4", "5", "6", "7", "8", "9">>

IsDigit(c) == \E i \in 1..10 : DigitChars[i] = c

\* char::to_digit(10) of a decimal digit
DigitVal(c) == (CHOOSE i \in 1..10 : DigitChars[i] = c) - 1

\* char::is_whitespace, restricted to the characters of the model
IsSpace(c) == c = " "

RECURSIVE TrimStart(_)
TrimStart(s) ==
    IF s # <<>> /\ IsSpace(Head(s)) THEN TrimStart(Tail(s)) ELSE s

RECURSIVE TrimEnd(_)
TrimEnd(s) ==
    IF s # <<>> /\ IsSpace(s[Len(s)])
    THEN TrimEnd(SubSeq(s, 1, Len(s) - 1))
    ELSE s

\* a plausible slip: only the leading whitespace is removed
TrimLeadingOnly(s) == TrimStart(s)

\* str::trim
Trim(s) == TrimEnd(TrimStart(s))

\* position of the first '-' of s, 0 when there is none
DashPos(s) ==
    IF \E i \in 1..Len(s) : s[i] = "-"
    THEN CHOOSE i \in 1..Len(s) : s[i] = "-" /\ \A j \in 1..(i - 1) : s[j] # "-"
    ELSE 0

\* str::split_once('-'): the text before and after the first '-'
SplitOnce(s) ==
    [found |-> DashPos(s) # 0,
     a |-> IF DashPos(s) = 0 THEN <<>> ELSE SubSeq(s, 1, DashPos(s) - 1),
     b |-> IF DashPos(s) = 0 THEN <<>> ELSE SubSeq(s, DashPos(s) + 1, Len(s))]

\* the decimal digits of u32::MAX, 4294967295
U32MaxDigits == <<"4", "2", "9", "4", "9", "6", "7", "2", "9", "5">>

\* a digit string without its leading zeros
RECURSIVE StripZeros(_)
StripZeros(ds) ==
    IF ds # <<>> /\ Head(ds) = "0" THEN StripZeros(Tail(ds)) ELSE ds

\* the digit string denotes a number above u32::MAX: the accumulation
\* `result * 10 + digit` of from_str overflows (checked_mul / checked_add)
Overflows(ds) ==
    LET c == StripZeros(ds)
    IN  \/ Len(c) > Len(U32MaxDigits)
        \/ /\ Len(c) = Len(U32MaxDigits)
           /\ \E i \in 1..Len(c) :
                /\ DigitVal(c[i]) > DigitVal(U32MaxDigits[i])
                /\ \A j \in 1..(i - 1) : c[j] = U32MaxDigits[j]

\* the value of a digit string, accumulated left to right
RECURSIVE DigitsValue(_, _)
DigitsValue(ds, acc) ==
    IF ds = <<>> THEN acc
    ELSE DigitsValue(Tail(ds), acc * 10 + DigitVal(Head(ds)))

\* <u32 as FromStr>::from_str: an optional '+', then one or more decimal
\* digits, value at most u32::MAX; no whitespace, no '-'
ParseU32(tok) ==
    LET ds == IF tok # <<>> /\ Head(tok) = "+" THEN Tail(tok) ELSE tok
    IN  IF ds = <<>> \/ \E i \in 1..Len(ds) : ~IsDigit(ds[i])
        THEN [ok |-> FALSE, val |-> 0]
        ELSE IF Overflows(ds)
             THEN [ok |-> FALSE, val |-> 0]
             ELSE [ok |-> TRUE, val |-> DigitsValue(ds, 0)]

(***************************************************************************)
(* Results of parse_port_range and remote_scan.                            *)
(***************************************************************************)
Ok(s, e) == [kind |-> "Ok", start |-> s, end |-> e, arg |-> <<>>]

InvalidPort(tok) == [kind |-> "InvalidPort", start |-> 0, end |-> 0, arg |-> tok]

InvalidPortRange(s) == [kind |-> "InvalidPortRange", start |-> 0, end |-> 0, arg |-> s]

JoinError == [kind |-> "JoinError", start |-> 0, end |-> 0, arg |-> <<>>]

\* remote_scan has not returned yet
Pending == [kind |-> "Pending", start |-> 0, end |-> 0, arg |-> <<>>]

\* fn parse_port_range(s: &str) -> Result<(u32, u32), PortScanError>
parse_port_range(spec) ==
    LET s == Trim(spec)
        sp == SplitOnce(s)
    IN  IF sp.found
        THEN LET st == ParseU32(Trim(sp.a))
                 en == ParseU32(Trim(sp.b))
             IN  IF ~st.ok THEN InvalidPort(sp.a)
                 ELSE IF ~en.ok THEN InvalidPort(sp.a)
                 ELSE IF st.val = 0 \/ en.val = 0 \/ st.val > en.val
                      THEN InvalidPortRange(s)
                      ELSE Ok(st.val, en.val)
        ELSE LET p == ParseU32(s)
             IN  IF ~p.ok THEN InvalidPort(s) ELSE Ok(p.val, p.val)

(***************************************************************************)
(* Inputs.                                                                 *)
(***************************************************************************)
\* characters of the port specifications that are enumerated exhaustively
Alphabet == {"0", "1", "2", "9", " ", "-", "+", "a"}

\* the decimal notation of a natural number
RECURSIVE Dec(_)
Dec(n) ==
    IF n < 10 THEN <<DigitChars[n + 1]>>
    ELSE Dec(n \div 10) \o <<DigitChars[(n % 10) + 1]>>

\* "A-B" with l1..l4 blanks around the two numbers
RangeText(A, B, l1, l2, l3, l4) ==
    [i \in 1..l1 |-> " "] \o Dec(A) \o [i \in 1..l2 |-> " "] \o <<"-">>
        \o [i \in 1..l3 |-> " "] \o Dec(B) \o [i \in 1..l4 |-> " "]

\* "A" with l1 blanks before and l2 blanks after
SingleText(A, l1, l2) ==
    [i \in 1..l1 |-> " "] \o Dec(A) \o [i \in 1..l2 |-> " "]

\* numbers beyond the reach of MaxSpecLen characters: the examples of the
\* documentation, the edge of the 16-bit range and i32::MAX
LongValues == {80, 100, 50, 65535, 65536, 70000, 2147483647}

\* u32::MAX + 1 = 4294967296 in decimal notation
U32Overflow == <<"4", "2", "9", "4", "9", "6", "7", "2", "9", "6">>

LongSpecs ==
    {RangeText(A, B, l, 0, 0, l) : A \in LongValues \cup {1}, B \in LongValues, l \in 0..1}
        \cup {SingleText(A, l1, l2) : A \in LongValues, l1 \in 0..1, l2 \in 0..1}
        \cup {Dec(80) \o <<"-">>, <<"a", "b", "c">>, Dec(80) \o <<"-">> \o <<"a", "b", "c">>}
        \cup {U32Overflow, Dec(1) \o <<"-">> \o U32Overflow, U32Overflow \o <<"-">> \o Dec(1)}

\* the values of the --port option given to parse_port_range on its own
ParseInputs ==
    UNION {[1..n -> Alphabet] : n \in 0..MaxSpecLen} \cup LongSpecs

\* the values of the --port option of the scans that are run: every range
\* and single port over 0..MaxPort, and two malformed specifications
ScanInputs ==
    {RangeText(A, B, 0, 0, 0, 0) : A \in 0..MaxPort, B \in 0..MaxPort}
        \cup {SingleText(A, 0, 0) : A \in 0..MaxPort}
        \cup {<<"a">>, <<"1", "-">>}

\* the port numbers of the scans that are run
Ports == 0..MaxPort

(***************************************************************************)
(* State.                                                                  *)
(***************************************************************************)
VARIABLES
    portSpec,       \* the `port` argument of remote_scan
    concurrency,    \* the `concurrency` argument of remote_scan
    pc,             \* where remote_scan is
    parsed,         \* the value of parse_port_range(port), (start, end) when Ok
    ret,            \* what remote_scan returned, Pending until it returns
    port,           \* the loop variable of `for port in start..=end`
    permits,        \* permits available in `sem`
    permit,         \* TRUE while the dispatcher owns the permit it acquired
    task,           \* per port: the probe task spawned for it
    holder,         \* the ports whose task owns a permit (`_permit`)
    released,       \* per port: how often its task's permit was dropped
    conn,           \* per port: what `timeout(to, connect)` resolved to
    runtime,        \* TRUE while the tokio runtime `rt` of run_port_scan lives
    tasks,          \* the join handles in the FuturesUnordered `tasks`
    open_ports,     \* Vec<u32>
    closed_count,   \* usize
    total,          \* usize
    reported,       \* the [OPEN] / [CLOSED] lines printed so far
    summary         \* the "Scan finished." block, NoSummary until printed

vars == <<portSpec, concurrency, pc, parsed, ret, port, permits, permit, task,
          holder, released, conn, runtime, tasks, open_ports, closed_count,
          total, reported, summary>>

NoSummary == [printed |-> FALSE, total |-> 0, open |-> 0, closed |-> 0, list |-> <<>>]

\* the state of remote_scan's locals before its first statement
InitLocals ==
    /\ pc = "idle"
    /\ parsed = Pending
    /\ ret = Pending
    /\ port = 0
    /\ permits = 0
    /\ permit = FALSE
    /\ task = [p \in Ports |-> "unspawned"]
    /\ holder = {}
    /\ released = [p \in Ports |-> 0]
    /\ conn = [p \in Ports |-> "none"]
    /\ runtime = TRUE
    /\ tasks = {}
    /\ open_ports = <<>>
    /\ closed_count = 0
    /\ total = 0
    /\ reported = <<>>
    /\ summary = NoSummary

\* a scan of a small range
Init ==
    /\ portSpec \in ScanInputs
    /\ concurrency \in 0..MaxConcurrency
    /\ InitLocals

\* a call whose port specification is arbitrary text
ParseInit ==
    /\ portSpec \in ParseInputs
    /\ concurrency \in 1..MaxConcurrency
    /\ InitLocals

(***************************************************************************)
(* remote_scan.                                                            *)
(***************************************************************************)
\* `let (start, end) = parse_port_range(port)?;` and, when it is Ok, the
\* construction of `sem` and `tasks` and the start of the range iteration
InRangeExclusive(p, end) == p < end

\* `start..=end` still yields p
InRange(p, end) == p <= end

\* a slip: a specification that does not parse is replaced by the first
\* port of the model instead of being returned as an error
ParseOrDefault ==
    /\ pc = "idle"
    /\ parsed' = parse_port_range(portSpec)
    /\ permits' = concurrency
    /\ port' = IF parsed'.kind = "Ok" THEN parsed'.start ELSE 0
    /\ pc' = "acquire"
    /\ ret' = ret
    /\ UNCHANGED <<conn, runtime, portSpec, concurrency, permit, task, holder, released, tasks,
                   open_ports, closed_count, total, reported, summary>>

\* a variant: the semaphore is built with at least one permit
\* (`Semaphore::new(concurrency.max(1))`)
ParseAtLeastOnePermit ==
    /\ pc = "idle"
    /\ parsed' = parse_port_range(portSpec)
    /\ IF parsed'.kind = "Ok"
       THEN /\ permits' = IF concurrency = 0 THEN 1 ELSE concurrency
            /\ port' = parsed'.start
            /\ pc' = IF InRange(parsed'.start, parsed'.end) THEN "acquire" ELSE "collect"
            /\ ret' = ret
       ELSE /\ ret' = parsed'
            /\ pc' = "parse_error"
            /\ UNCHANGED <<permits, port>>
    /\ UNCHANGED <<conn, runtime, portSpec, concurrency, permit, task, holder,
                   released, tasks, open_ports, closed_count, total, reported,
                   summary>>

Parse ==
    /\ pc = "idle"
    /\ parsed' = parse_port_range(portSpec)
    /\ IF parsed'.kind = "Ok"
       THEN /\ permits' = concurrency
            /\ port' = parsed'.start
            /\ pc' = IF InRange(parsed'.start, parsed'.end) THEN "acquire" ELSE "collect"
            /\ ret' = ret
       ELSE /\ ret' = parsed'
            /\ pc' = "parse_error"
            /\ UNCHANGED <<permits, port>>
    /\ UNCHANGED <<conn, runtime, portSpec, concurrency, permit, task, holder, released, tasks,
                   open_ports, closed_count, total, reported, summary>>

\* a slip: the dispatcher does not wait for a free permit
AcquireWithoutWaiting == TRUE

\* Semaphore::acquire_owned resolves only while a permit is available
CanAcquire == permits > 0

\* a slip: the permit is handed out without being taken from the semaphore
AcquireNoDecrement ==
    /\ pc = "acquire"
    /\ CanAcquire
    /\ permit' = TRUE
    /\ pc' = "spawn"
    /\ UNCHANGED <<conn, runtime, portSpec, concurrency, parsed, ret, port,
                   permits, task, holder, released, tasks, open_ports,
                   closed_count, total, reported, summary>>

\* `sem.clone().acquire_owned().await` for the current port
Acquire ==
    /\ pc = "acquire"
    /\ CanAcquire
    /\ permits' = permits - 1
    /\ permit' = TRUE
    /\ pc' = "spawn"
    /\ UNCHANGED <<conn, runtime, portSpec, concurrency, parsed, ret, port, task, holder,
                   released, tasks, open_ports, closed_count, total, reported,
                   summary>>

\* a slip: the loop advances by two ports (`step_by(2)`)
SpawnEveryOther ==
    /\ pc = "spawn"
    /\ task' = [task EXCEPT ![port] = "running"]
    /\ holder' = holder \cup (IF permit THEN {port} ELSE {})
    /\ permit' = FALSE
    /\ tasks' = tasks \cup {port}
    /\ port' = port + 2
    /\ pc' = IF InRange(port + 2, parsed.end) THEN "acquire" ELSE "collect"
    /\ UNCHANGED <<conn, runtime, portSpec, concurrency, parsed, ret, permits,
                   released, open_ports, closed_count, total, reported, summary>>

\* `tasks.push(tokio::spawn(async move { let _permit = permit; ... }))`
\* and the step of the for loop to the next port
Spawn ==
    /\ pc = "spawn"
    /\ task' = [task EXCEPT ![port] = "running"]
    /\ holder' = holder \cup (IF permit THEN {port} ELSE {})
    /\ permit' = FALSE
    /\ tasks' = tasks \cup {port}
    /\ port' = port + 1
    /\ pc' = IF InRange(port + 1, parsed.end) THEN "acquire" ELSE "collect"
    /\ UNCHANGED <<conn, runtime, portSpec, concurrency, parsed, ret, permits, released,
                   open_ports, closed_count, total, reported, summary>>

\* what `timeout(to, TcpStream::connect(&addr)).await` can resolve to:
\* Ok(Ok(stream)); Ok(Err(e)), the connection was refused or the host is
\* unreachable; Err(Elapsed), the timeout came first
ConnectResults == {"connected", "refused", "elapsed"}

\* a slip: `Ok(_) => true`, only the timeout counts as closed
IsOpenUnlessElapsed(res) == res # "elapsed"

\* `match .. { Ok(Ok(_stream)) => true, _ => false }`
IsOpen(res) == res = "connected"

\* a slip: the task keeps its permit when its body ends
TaskFinishKeepPermit(p, res) ==
    /\ task[p] = "running"
    /\ conn' = [conn EXCEPT ![p] = res]
    /\ task' = [task EXCEPT ![p] = IF IsOpen(res) THEN "open" ELSE "closed"]
    /\ UNCHANGED <<runtime, portSpec, concurrency, pc, parsed, ret, port, permit,
                   tasks, holder, released, permits,
                   open_ports, closed_count, total, reported, summary>>

\* a variant: the task writes its result into shared counters itself
TaskFinishCounts(p, res) ==
    /\ task[p] = "running"
    /\ conn' = [conn EXCEPT ![p] = res]
    /\ task' = [task EXCEPT ![p] = IF IsOpen(res) THEN "open" ELSE "closed"]
    /\ holder' = holder \ {p}
    /\ released' = [released EXCEPT ![p] = @ + Cardinality(holder \cap {p})]
    /\ permits' = permits + Cardinality(holder \cap {p})
    /\ total' = total + 1
    /\ closed_count' = IF IsOpen(res) THEN closed_count ELSE closed_count + 1
    /\ open_ports' = IF IsOpen(res) THEN Append(open_ports, p) ELSE open_ports
    /\ tasks' = tasks \ {p}
    /\ UNCHANGED <<runtime, portSpec, concurrency, pc, parsed, ret, port, permit,
                   reported, summary>>

\* the body of the spawned task ends with `(port, is_open)`: the connect
\* attempt or its timeout resolved, `_permit` is dropped
TaskFinish(p, res) ==
    /\ task[p] = "running"
    /\ conn' = [conn EXCEPT ![p] = res]
    /\ task' = [task EXCEPT ![p] = IF IsOpen(res) THEN "open" ELSE "closed"]
    /\ holder' = holder \ {p}
    /\ released' = [released EXCEPT ![p] = @ + Cardinality(holder \cap {p})]
    /\ permits' = permits + Cardinality(holder \cap {p})
    /\ UNCHANGED <<runtime, portSpec, concurrency, pc, parsed, ret, port, permit,
                   tasks, open_ports, closed_count, total, reported, summary>>

\* a slip: a task that ends abnormally does not give its permit back
TaskPanicLeak(p) ==
    /\ task[p] = "running"
    /\ task' = [task EXCEPT ![p] = "failed"]
    /\ UNCHANGED <<conn, runtime, portSpec, concurrency, pc, parsed, ret, port, permit, tasks,
                   holder, released, permits,
                   open_ports, closed_count, total, reported, summary>>

\* the spawned task ends abnormally (its JoinHandle yields Err(JoinError));
\* the unwinding drops `_permit`
TaskPanic(p) ==
    /\ task[p] = "running"
    /\ task' = [task EXCEPT ![p] = "failed"]
    /\ holder' = holder \ {p}
    /\ released' = [released EXCEPT ![p] = @ + Cardinality(holder \cap {p})]
    /\ permits' = permits + Cardinality(holder \cap {p})
    /\ UNCHANGED <<conn, runtime, portSpec, concurrency, pc, parsed, ret, port, permit, tasks,
                   open_ports, closed_count, total, reported, summary>>

\* `tasks.next().await` yields the handle of a finished task
Ready(p) == p \in tasks /\ task[p] \in {"open", "closed", "failed"}

\* a slip: `open_ports.insert(0, port_num)`, the newest open port first
CollectOpenInFront(p) ==
    /\ pc = "collect"
    /\ Ready(p)
    /\ task[p] = "open"
    /\ tasks' = tasks \ {p}
    /\ total' = total + 1
    /\ reported' = Append(reported, [port |-> p, open |-> TRUE])
    /\ open_ports' = <<p>> \o open_ports
    /\ UNCHANGED <<conn, runtime, portSpec, concurrency, pc, parsed, ret, port,
                   permits, permit, task, holder, released, closed_count,
                   summary>>

\* a variant: the finished handles are taken as a batch and only one result
\* of the batch is aggregated, so the content depends on which probes happen
\* to be finished together
CollectOpenDropsBatch(p) ==
    /\ pc = "collect"
    /\ Ready(p)
    /\ task[p] = "open"
    /\ tasks' = {q \in tasks : ~Ready(q)}
    /\ total' = total + 1
    /\ reported' = Append(reported, [port |-> p, open |-> TRUE])
    /\ open_ports' = Append(open_ports, p)
    /\ UNCHANGED <<conn, runtime, portSpec, concurrency, pc, parsed, ret, port,
                   permits, permit, task, holder, released, closed_count,
                   summary>>

\* `Ok((port_num, true))`
CollectOpen(p) ==
    /\ pc = "collect"
    /\ Ready(p)
    /\ task[p] = "open"
    /\ tasks' = tasks \ {p}
    /\ total' = total + 1
    /\ reported' = Append(reported, [port |-> p, open |-> TRUE])
    /\ open_ports' = Append(open_ports, p)
    /\ UNCHANGED <<conn, runtime, portSpec, concurrency, pc, parsed, ret, port, permits,
                   permit, task, holder, released, closed_count, summary>>

\* a variant: results are collected between two dispatches as well
CollectClosedWhileDispatching(p) ==
    /\ pc \in {"acquire", "collect"}
    /\ Ready(p)
    /\ task[p] = "closed"
    /\ tasks' = tasks \ {p}
    /\ total' = total + 1
    /\ reported' = Append(reported, [port |-> p, open |-> FALSE])
    /\ closed_count' = closed_count + 1
    /\ UNCHANGED <<conn, runtime, portSpec, concurrency, pc, parsed, ret, port,
                   permits, permit, task, holder, released, open_ports, summary>>

\* a slip: a closed port is reported but not counted
CollectClosedNoCount(p) ==
    /\ pc = "collect"
    /\ Ready(p)
    /\ task[p] = "closed"
    /\ tasks' = tasks \ {p}
    /\ total' = total + 1
    /\ reported' = Append(reported, [port |-> p, open |-> FALSE])
    /\ UNCHANGED <<conn, runtime, portSpec, concurrency, pc, parsed, ret, port, permits,
                   permit, task, holder, released, open_ports, closed_count,
                   summary>>

\* `Ok((port_num, false))`
CollectClosed(p) ==
    /\ pc = "collect"
    /\ Ready(p)
    /\ task[p] = "closed"
    /\ tasks' = tasks \ {p}
    /\ total' = total + 1
    /\ reported' = Append(reported, [port |-> p, open |-> FALSE])
    /\ closed_count' = closed_count + 1
    /\ UNCHANGED <<conn, runtime, portSpec, concurrency, pc, parsed, ret, port, permits,
                   permit, task, holder, released, open_ports, summary>>

\* a slip: the join error is logged and the collection goes on
CollectErrContinue(p) ==
    /\ pc = "collect"
    /\ Ready(p)
    /\ task[p] = "failed"
    /\ tasks' = tasks \ {p}
    /\ total' = total + 1
    /\ UNCHANGED <<conn, runtime, portSpec, concurrency, pc, parsed, ret, port, permits,
                   permit, task, holder, released, open_ports, closed_count,
                   reported, summary>>

\* a slip: the error is remembered and the collection loop runs on
CollectErrDeferred(p) ==
    /\ pc = "collect"
    /\ Ready(p)
    /\ task[p] = "failed"
    /\ total' = total + 1
    /\ tasks' = tasks \ {p}
    /\ ret' = JoinError
    /\ UNCHANGED <<conn, runtime, portSpec, concurrency, pc, parsed, port,
                   permits, permit, task, holder, released, open_ports,
                   closed_count, reported, summary>>

\* a variant: the Err arm aborts the tasks that are still running before it
\* returns (`JoinHandle::abort`)
CollectErrAbortAll(p) ==
    /\ pc = "collect"
    /\ Ready(p)
    /\ task[p] = "failed"
    /\ total' = total + 1
    /\ tasks' = {}
    /\ ret' = JoinError
    /\ pc' = "aborted"
    /\ task' = [q \in Ports |-> IF task[q] = "running" THEN "cancelled" ELSE task[q]]
    /\ holder' = {q \in holder : task[q] # "running"}
    /\ released' = [q \in Ports |->
                       IF task[q] = "running" /\ q \in holder
                       THEN released[q] + 1 ELSE released[q]]
    /\ permits' = permits + Cardinality({q \in holder : task[q] = "running"})
    /\ UNCHANGED <<conn, runtime, portSpec, concurrency, parsed, port, permit,
                   open_ports, closed_count, reported, summary>>

\* a variant: `total += 1` sits in the two Ok arms only, a failed result is
\* not counted
CollectErrUncounted(p) ==
    /\ pc = "collect"
    /\ Ready(p)
    /\ task[p] = "failed"
    /\ tasks' = {}
    /\ ret' = JoinError
    /\ pc' = "aborted"
    /\ UNCHANGED <<conn, runtime, portSpec, concurrency, parsed, port, permits,
                   permit, task, holder, released, open_ports, closed_count,
                   total, reported, summary>>

\* `Err(e) => return Err(PortScanError::JoinError(..))`; the return drops
\* `tasks`, which detaches the tasks that are still running
CollectErr(p) ==
    /\ pc = "collect"
    /\ Ready(p)
    /\ task[p] = "failed"
    /\ total' = total + 1
    /\ tasks' = {}
    /\ ret' = JoinError
    /\ pc' = "aborted"
    /\ UNCHANGED <<conn, runtime, portSpec, concurrency, parsed, port, permits, permit, task,
                   holder, released, open_ports, closed_count, reported,
                   summary>>

\* a slip: `if let` for `while let`, the summary follows the first result
FinishAfterFirst ==
    /\ pc = "collect"
    /\ total >= 1
    /\ summary' = [printed |-> TRUE, total |-> total, open |-> Len(open_ports),
                   closed |-> closed_count, list |-> open_ports]
    /\ ret' = Ok(parsed.start, parsed.end)
    /\ pc' = "completed"
    /\ UNCHANGED <<conn, runtime, portSpec, concurrency, parsed, port, permits,
                   permit, task, holder, released, tasks, open_ports,
                   closed_count, total, reported>>

\* `tasks.next()` yields None: the summary is printed and Ok(()) returned
Finish ==
    /\ pc = "collect"
    /\ tasks = {}
    /\ summary' = [printed |-> TRUE, total |-> total, open |-> Len(open_ports),
                   closed |-> closed_count, list |-> open_ports]
    /\ ret' = Ok(parsed.start, parsed.end)
    /\ pc' = "completed"
    /\ UNCHANGED <<conn, runtime, portSpec, concurrency, parsed, port, permits, permit, task,
                   holder, released, tasks, open_ports, closed_count, total,
                   reported>>

\* run_port_scan: `rt.block_on(..)` has returned and `rt` is dropped at the
\* end of the function; the runtime shuts down, which drops the spawned
\* tasks that are still waiting at an await, and with them their `_permit`
DropRuntime ==
    /\ pc \in {"completed", "aborted", "parse_error"}
    /\ runtime
    /\ runtime' = FALSE
    /\ task' = [p \in Ports |-> IF task[p] = "running" THEN "cancelled" ELSE task[p]]
    /\ holder' = {p \in holder : task[p] # "running"}
    /\ released' = [p \in Ports |->
                       IF task[p] = "running" /\ p \in holder
                       THEN released[p] + 1 ELSE released[p]]
    /\ permits' = permits + Cardinality({p \in holder : task[p] = "running"})
    /\ UNCHANGED <<conn, portSpec, concurrency, pc, parsed, ret, port, permit,
                   tasks, open_ports, closed_count, total, reported, summary>>

\* the steps of remote_scan itself
Orchestrator ==
    \/ Parse
    \/ Acquire
    \/ Spawn
    \/ \E p \in Ports : CollectOpen(p)
    \/ \E p \in Ports : CollectClosed(p)
    \/ \E p \in Ports : CollectErr(p)
    \/ Finish

Next ==
    \/ Parse
    \/ Acquire
    \/ Spawn
    \/ \E p \in Ports, res \in ConnectResults : TaskFinish(p, res)
    \/ \E p \in Ports : TaskPanic(p)
    \/ \E p \in Ports : CollectOpen(p)
    \/ \E p \in Ports : CollectClosed(p)
    \/ \E p \in Ports : CollectErr(p)
    \/ Finish
    \/ DropRuntime

Spec == Init /\ [][Next]_vars

\* some running task ends: `(port, is_open)` or a join error
TaskEnds ==
    \/ \E p \in Ports, res \in ConnectResults : TaskFinish(p, res)
    \/ \E p \in Ports : TaskPanic(p)

\* every step of remote_scan is eventually taken, and while tasks are
\* running one of them eventually ends: each connect attempt is bounded by
\* the timeout
LiveSpec ==
    /\ Init
    /\ [][Next]_vars
    /\ WF_vars(Orchestrator)
    /\ WF_vars(TaskEnds)

\* parse_port_range on its own: the first statement of remote_scan
ParseNext == Parse

ParseSpec == ParseInit /\ [][ParseNext]_vars

(***************************************************************************)
(* Properties of the scan.                                                 *)
(***************************************************************************)
\* permits acquired and not yet released
HeldPermits == Cardinality(holder) + (IF permit THEN 1 ELSE 0)

\* probes that are running
ActiveProbes == Cardinality({p \in Ports : task[p] = "running"})

\* remote_scan is dispatching or collecting
Scanning == pc \in {"acquire", "spawn", "collect"}

\* the number of ports of the parsed range
RangeSize == parsed.end - parsed.start + 1

\* C1: at every instant the number of permits held is between 0 and
\* concurrency, and so is the number of probes that are running.
C1_PermitBound ==
    /\ HeldPermits >= 0
    /\ HeldPermits <= concurrency
    /\ ActiveProbes <= concurrency

\* the dispatcher waits at full capacity with ports left to dispatch
C1_Witness ==
    /\ pc = "acquire"
    /\ concurrency >= 1
    /\ ActiveProbes = concurrency
    /\ RangeSize > concurrency

\* C2: when the scan completes successfully, total is end - start + 1.
C2_TotalOnCompletion ==
    pc = "completed" =>
        /\ total = parsed.end - parsed.start + 1
        /\ summary.total = parsed.end - parsed.start + 1

\* a completed scan of a range larger than the concurrency
C2_Witness ==
    /\ pc = "completed"
    /\ RangeSize >= 3
    /\ concurrency < RangeSize

\* C3: when the scan completes successfully, the number of open ports plus
\* closed_count equals total.
C3_OpenPlusClosed ==
    pc = "completed" =>
        /\ Len(open_ports) + closed_count = total
        /\ summary.open + summary.closed = summary.total

\* a completed scan that found open and closed ports
C3_Witness ==
    /\ pc = "completed"
    /\ Len(open_ports) >= 1
    /\ closed_count >= 1

\* x is a prefix of y
IsPrefix(x, y) == Len(x) <= Len(y) /\ SubSeq(y, 1, Len(x)) = x

\* some task of the scan ended abnormally
SomeTaskFailed == \E p \in Ports : task[p] = "failed"

\* C4: once a task has ended abnormally the scan never completes and never
\* prints the summary, it ends with JoinError, and the lines reported so far
\* stay as they are.
C4_FailFast ==
    /\ [](SomeTaskFailed => (pc # "completed" /\ ~summary.printed /\ ret.kind # "Ok"))
    /\ [](pc = "aborted" => (ret = JoinError /\ ~summary.printed))
    /\ (SomeTaskFailed ~> (pc = "aborted" /\ ret = JoinError))
    /\ [][IsPrefix(reported, reported')]_vars

\* an aborted scan that had already reported results of other probes
C4_Witness ==
    /\ pc = "aborted"
    /\ ret = JoinError
    /\ Len(reported) >= 2

\* C5: with concurrency >= 1, every acquire eventually returns a permit,
\* every port of the range is eventually dispatched and the run eventually
\* completes or aborts.
C5_Liveness ==
    /\ (pc = "acquire" /\ concurrency >= 1) ~> (pc = "spawn")
    /\ (Scanning /\ concurrency >= 1) ~>
           (/\ pc \in {"completed", "aborted"}
            /\ \A p \in parsed.start..parsed.end : task[p] # "unspawned")

\* a finished run whose dispatcher had to wait for permits
C5_Witness ==
    /\ pc \in {"completed", "aborted"}
    /\ concurrency >= 1
    /\ RangeSize > concurrency
    /\ \A p \in parsed.start..parsed.end : task[p] # "unspawned"

\* C6: a task runs only with the permit acquired for it, and a task that
\* has ended, normally, abnormally or by being dropped with the runtime, has
\* released that permit exactly once.
C6_PermitLifecycle ==
    \A p \in Ports :
        /\ task[p] = "unspawned" => (p \notin holder /\ released[p] = 0)
        /\ task[p] = "running" => (p \in holder /\ released[p] = 0)
        /\ task[p] \in {"open", "closed", "failed", "cancelled"} =>
               (p \notin holder /\ released[p] = 1)

\* one task ended abnormally and another normally, both gave their permit back
C6_Witness ==
    /\ \E p \in Ports : task[p] = "failed" /\ released[p] = 1
    /\ \E p \in Ports : task[p] \in {"open", "closed"} /\ released[p] = 1
    /\ \E p \in Ports : task[p] = "running" /\ p \in holder

(***************************************************************************)
(* Properties of parse_port_range.                                         *)
(***************************************************************************)
\* parse_port_range has returned
Parsed == pc # "idle"

\* the specification is of the form "A-B"
IsRangeSpec == SplitOnce(Trim(portSpec)).found

\* the start and end tokens of the specification; the whole trimmed
\* specification is both when it is a single port
StartToken ==
    IF IsRangeSpec THEN SplitOnce(Trim(portSpec)).a ELSE Trim(portSpec)

EndToken ==
    IF IsRangeSpec THEN SplitOnce(Trim(portSpec)).b ELSE Trim(portSpec)

\* the two endpoints as unsigned integers
StartValue == ParseU32(Trim(StartToken))

EndValue == ParseU32(Trim(EndToken))

\* C7: a specification with an endpoint 0 or with start > end fails with
\* InvalidPortRange, whether it is a range or a single port.
C7_ZeroOrInvertedFails ==
    (/\ Parsed
     /\ StartValue.ok
     /\ EndValue.ok
     /\ (StartValue.val = 0 \/ EndValue.val = 0 \/ StartValue.val > EndValue.val))
        => parsed = InvalidPortRange(Trim(portSpec))

\* C8: every range parse_port_range returns satisfies
\* 1 <= start <= end <= 65535, and so does every port handed to a probe.
C8_RangeWithinPorts ==
    /\ (Parsed /\ parsed.kind = "Ok") =>
           (1 <= parsed.start /\ parsed.start <= parsed.end /\ parsed.end <= 65535)
    /\ \A p \in Ports : task[p] # "unspawned" => (1 <= p /\ p <= 65535)

\* C9: when a token is not a valid unsigned integer the error is InvalidPort
\* with that token: the start token, else the end token, of a range, the
\* whole trimmed specification of a single port.
C9_InvalidPortCarriesToken ==
    Parsed =>
        /\ ~StartValue.ok =>
               parsed \in {InvalidPort(StartToken), InvalidPort(Trim(StartToken))}
        /\ (StartValue.ok /\ ~EndValue.ok) =>
               parsed \in {InvalidPort(EndToken), InvalidPort(Trim(EndToken))}

\* the numbers written with at most two characters of Alphabet, and the
\* long values within the port bound
CaseValues ==
    {n \in 1..99 : \A i \in 1..Len(Dec(n)) : Dec(n)[i] \in Alphabet}
        \cup {n \in LongValues : n <= 65535}

\* "A-B" for 1 <= A <= B with up to one blank at each of the four places
RangeCases ==
    {[text |-> RangeText(A, B, l1, l2, l3, l4), start |-> A, end |-> B] :
        A \in CaseValues, B \in CaseValues,
        l1 \in 0..1, l2 \in 0..1, l3 \in 0..1, l4 \in 0..1}

\* "A" for 1 <= A with up to one blank on each side
SingleCases ==
    {[text |-> SingleText(A, l1, l2), start |-> A, end |-> A] :
        A \in CaseValues, l1 \in 0..1, l2 \in 0..1}

Cases == {c \in RangeCases \cup SingleCases : c.start <= c.end}

CaseTexts == {c.text : c \in Cases}

\* C10: for 1 <= A <= B, "A-B" parses to (A, B) and "A" to (A, A), with or
\* without blanks around the numbers.
C10_ParsesDecimal ==
    (Parsed /\ portSpec \in CaseTexts) =>
        \A c \in Cases : c.text = portSpec => parsed = Ok(c.start, c.end)

\* a range written with surrounding blanks was parsed
C10_Witness ==
    /\ Parsed
    /\ portSpec \in CaseTexts
    /\ Head(portSpec) = " "
    /\ portSpec[Len(portSpec)] = " "
    /\ parsed.kind = "Ok"
    /\ parsed.start < parsed.end

(***************************************************************************)
(* Further properties of the scan.                                         *)
(***************************************************************************)
\* C11: when the port specification does not parse, remote_scan returns
\* that error before any scanning: no permit is acquired, no task is
\* spawned, nothing is reported and no summary is printed.
C11_ParseErrorBeforeScan ==
    (Parsed /\ parse_port_range(portSpec).kind # "Ok") =>
        /\ pc = "parse_error"
        /\ ret = parse_port_range(portSpec)
        /\ permits = 0
        /\ ~permit
        /\ holder = {}
        /\ tasks = {}
        /\ \A p \in Ports : task[p] = "unspawned" /\ released[p] = 0
        /\ reported = <<>>
        /\ total = 0
        /\ ~summary.printed

\* a scan with concurrency >= 1 whose inverted range was rejected
C11_Witness ==
    /\ pc = "parse_error"
    /\ ret.kind = "InvalidPortRange"
    /\ concurrency >= 1

\* C12: a probe yields Open exactly when the connection was established
\* before the timeout, and Closed when it was refused, the host was
\* unreachable or the timeout came first; a probe whose connect attempt
\* resolved never fails, and a scan whose probes all resolved never aborts.
C12_OpenIffConnected ==
    /\ \A p \in Ports :
        /\ task[p] = "open" <=> conn[p] = "connected"
        /\ task[p] = "closed" <=> conn[p] \in {"refused", "elapsed"}
        /\ task[p] \in {"failed", "cancelled"} => conn[p] = "none"
    /\ pc = "aborted" => \E p \in Ports : task[p] = "failed" /\ conn[p] = "none"

\* a completed scan with an established, a refused and a timed out connection
C12_Witness ==
    /\ pc = "completed"
    /\ \E p \in Ports : conn[p] = "connected" /\ task[p] = "open"
    /\ \E p \in Ports : conn[p] = "refused" /\ task[p] = "closed"
    /\ \E p \in Ports : conn[p] = "elapsed" /\ task[p] = "closed"

\* the ports of the parsed range
Range == IF parsed.kind = "Ok" THEN parsed.start..parsed.end ELSE {}

\* the ports a probe task was spawned for
Dispatched == {p \in Ports : task[p] # "unspawned"}

\* how many of the reported lines are about port p
ReportedCount(p) == Cardinality({i \in 1..Len(reported) : reported[i].port = p})

\* the sequence has no element twice
NoDuplicates(seq) == \A i, j \in 1..Len(seq) : seq[i] = seq[j] => i = j

\* C13: the ports dispatched so far are the ports of the range below the
\* loop variable, each dispatched once and never again; on completion every
\* port of the range has exactly one result, and open_ports never holds a
\* port twice or a port outside the range.
C13_OneProbePerPort ==
    /\ [](/\ Dispatched \subseteq Range
          /\ Dispatched = {p \in Range : p < port}
          /\ NoDuplicates(open_ports)
          /\ \A i \in 1..Len(open_ports) : open_ports[i] \in Range
          /\ \A p \in Ports : ReportedCount(p) <= 1
          /\ pc = "completed" =>
                /\ Dispatched = Range
                /\ \A p \in Range : ReportedCount(p) = 1)
    /\ [][\A p \in Ports :
            (task'[p] = "running" /\ task[p] # "running") =>
                (task[p] = "unspawned" /\ p = port /\ p \in Range)]_vars

\* a completed scan of three ports
C13_Witness ==
    /\ pc = "completed"
    /\ RangeSize = 3
    /\ Len(reported) = 3
    /\ Len(open_ports) >= 2

\* the state of the run: Scanning from the start of the range iteration; a
\* run whose port specification did not parse never leaves Idle
Phase ==
    CASE pc \in {"idle", "parse_error"} -> "Idle"
      [] pc \in {"acquire", "spawn", "collect"} -> "Scanning"
      [] pc = "completed" -> "Completed"
      [] pc = "aborted" -> "Aborted"

\* the ports whose result `tasks.next()` has yielded
Collected == Dispatched \ tasks

\* C14: the run moves only Idle -> Scanning -> Completed or Aborted;
\* Completed is reached only with a result of every port and no failure,
\* Aborted by collecting the first failed task, and neither is ever left.
C14_StateMachine ==
    /\ [][\/ Phase' = Phase
          \/ Phase = "Idle" /\ Phase' = "Scanning"
          \/ Phase = "Scanning" /\ Phase' \in {"Completed", "Aborted"}]_vars
    /\ [](pc = "completed" =>
            /\ \A p \in Range : ReportedCount(p) = 1 /\ task[p] \in {"open", "closed"}
            /\ tasks = {})
    /\ [](pc = "collect" => \A q \in Collected : task[q] # "failed")
    /\ [][(pc' = "aborted" /\ pc # "aborted") =>
             /\ pc = "collect"
             /\ \E p \in tasks : task[p] = "failed"
             /\ \A q \in Collected : task[q] # "failed"]_vars

\* a run that aborted although other results had been collected, and a
\* dropped runtime after it
C14_Witness ==
    /\ pc = "aborted"
    /\ ~runtime
    /\ Len(reported) >= 1

\* the line reports an open port
IsOpenLine(r) == r.open

\* the ports of a sequence of reported lines
PortsOf(lines) == [i \in 1..Len(lines) |-> lines[i].port]

\* C15: every result is reported in the step that collects it, once, in
\* the order of collection; open_ports is the open ports in that order,
\* whatever the port numbers are.
C15_ArrivalOrder ==
    /\ [](/\ open_ports = PortsOf(SelectSeq(reported, IsOpenLine))
          /\ \A p \in Ports : ReportedCount(p) <= 1
          /\ \A i \in 1..Len(reported) :
                 reported[i].open <=> task[reported[i].port] = "open"
          /\ pc \in {"collect", "completed"} =>
                 {reported[i].port : i \in 1..Len(reported)} = Collected)
    /\ [][\A p \in Ports :
            (p \in tasks /\ p \notin tasks' /\ pc' # "aborted") =>
                reported' = Append(reported, [port |-> p, open |-> task[p] = "open"])]_vars

\* a completed scan whose open ports were collected in descending order
C15_Witness ==
    /\ pc = "completed"
    /\ Len(open_ports) >= 2
    /\ open_ports[1] > open_ports[2]
    /\ Len(reported) = 3
    /\ reported[1].port > reported[3].port

\* C16: collecting a failed task returns JoinError in that very step, and
\* from then on no result of another probe changes open_ports, closed_count
\* or total, and nothing more is reported.
C16_NoAggregationAfterAbort ==
    /\ [][(pc = "aborted" \/ ret = JoinError) =>
             UNCHANGED <<open_ports, closed_count, total, reported, summary,
                         ret, pc, tasks>>]_vars
    /\ [][\A p \in Ports :
            (p \in tasks /\ task[p] = "failed" /\ p \notin tasks') =>
                /\ pc' = "aborted"
                /\ ret' = JoinError
                /\ UNCHANGED <<open_ports, closed_count, reported, summary>>]_vars

\* an aborted scan with a reported result and with the result of another
\* probe that was never aggregated
C16_Witness ==
    /\ pc = "aborted"
    /\ Len(reported) >= 1
    /\ \E q \in Ports : task[q] \in {"open", "closed"} /\ ReportedCount(q) = 0

\* C17 as stated: after a fail-fast abort no dispatched probe is cancelled,
\* each runs to completion.
C17_NeverCancelled ==
    pc = "aborted" => \A p \in Ports : task[p] # "cancelled"

\* C17, amended: the abort itself cancels nothing and leaves every running
\* probe running; a probe is cancelled only when the runtime is dropped
\* after remote_scan has returned, and only while it is still running;
\* once the runtime is gone every dispatched probe has ended, by running to
\* completion or by being cancelled, and has released its permit exactly
\* once; its result changes neither the counters nor the report.
C17_CancelledOnlyWithRuntime ==
    /\ [][(pc' = "aborted" /\ pc # "aborted") =>
             (task' = task /\ holder' = holder /\ permits' = permits
              /\ released' = released /\ runtime')]_vars
    /\ [][\A p \in Ports :
            (task'[p] = "cancelled" /\ task[p] # "cancelled") =>
                (task[p] = "running" /\ runtime /\ ~runtime'
                 /\ p \notin holder' /\ released'[p] = released[p] + 1)]_vars
    /\ [][(pc = "aborted" /\ runtime') =>
             \A p \in Ports : task[p] = "running" =>
                 task'[p] \in {"running", "open", "closed", "failed"}]_vars
    /\ []((pc = "aborted" /\ ~runtime) =>
             \A p \in Dispatched :
                 /\ task[p] \in {"open", "closed", "failed", "cancelled"}
                 /\ p \notin holder
                 /\ released[p] = 1)
    /\ [][pc = "aborted" =>
             UNCHANGED <<open_ports, closed_count, total, reported, summary>>]_vars

\* after an abort one probe was cancelled with the runtime and another had
\* run to completion without its result being aggregated
C17_Witness ==
    /\ pc = "aborted"
    /\ ~runtime
    /\ \E p \in Ports : task[p] = "cancelled" /\ released[p] = 1
    /\ \E q \in Ports : task[q] \in {"open", "closed"} /\ ReportedCount(q) = 0

\* the step in which the body of the task of port p ends
TaskStep(p) == task[p] = "running" /\ task'[p] \in {"open", "closed", "failed"}

\* C18: open_ports, closed_count and total change only in a step of the
\* collection loop that takes one finished handle out of `tasks`; the step
\* that ends a task changes none of remote_scan's variables and, of what
\* the tasks own, only that task's own state and the permit count.
C18_SingleCollectionPoint ==
    /\ [][(\/ open_ports' # open_ports
           \/ closed_count' # closed_count
           \/ total' # total
           \/ reported' # reported) =>
             /\ pc = "collect"
             /\ task' = task
             /\ \E p \in tasks : Ready(p) /\ (tasks' = tasks \ {p} \/ tasks' = {})]_vars
    /\ [][\A p \in Ports : TaskStep(p) =>
             /\ UNCHANGED <<open_ports, closed_count, total, reported, summary,
                            tasks, pc, ret, port, permit, parsed>>
             /\ permits' = permits + 1
             /\ \A q \in Ports \ {p} :
                    /\ task'[q] = task[q]
                    /\ conn'[q] = conn[q]
                    /\ released'[q] = released[q]
                    /\ (q \in holder' <=> q \in holder)]_vars

\* during the collection one task has ended after another, and its result
\* waits in `tasks` while the counters hold the results collected so far
C18_Witness ==
    /\ pc = "collect"
    /\ total = 1
    /\ Len(open_ports) + closed_count = 1
    /\ \E p \in tasks : Ready(p)
    /\ \E q \in tasks : task[q] = "running"

\* the probes of the range whose task has ended
Ended == {p \in Range : task[p] \in {"open", "closed", "failed", "cancelled"}}

\* C19: nothing is collected or reported while ports are being dispatched,
\* whether or not a task has already failed; once a result is collected or
\* the run has ended every port of the range was dispatched, and at least
\* range size - concurrency probes have ended.
C19_CollectAfterDispatch ==
    /\ pc \in {"acquire", "spawn"} =>
           /\ total = 0
           /\ reported = <<>>
           /\ open_ports = <<>>
           /\ closed_count = 0
           /\ tasks = Dispatched
           /\ ret = Pending
    /\ (total > 0 \/ reported # <<>> \/ pc \in {"collect", "completed", "aborted"}) =>
           /\ Dispatched = Range
           /\ Cardinality(Ended) >= RangeSize - concurrency

\* the last port is being dispatched after a task has failed, and nothing
\* has been collected
C19_Witness ==
    /\ pc = "spawn"
    /\ port = parsed.end
    /\ RangeSize > concurrency
    /\ SomeTaskFailed
    /\ total = 0

\* `sem` has been constructed
SemExists == pc \notin {"idle", "parse_error"}

\* C20: once the semaphore exists, the permits available plus the permits
\* held by the dispatcher and by unfinished tasks are `concurrency`; a task
\* whose body has ended has given its permit back although its result still
\* waits in `tasks`; on completion every permit is available.
C20_PermitConservation ==
    /\ SemExists =>
           /\ permits >= 0
           /\ permits + HeldPermits = concurrency
    /\ \A p \in tasks :
           task[p] \in {"open", "closed", "failed"} =>
               (p \notin holder /\ released[p] = 1)
    /\ pc = "completed" =>
           (permits = concurrency /\ holder = {} /\ ~permit)

\* every probe has ended and every permit is back before the first result
\* is collected
C20_Witness ==
    /\ pc = "collect"
    /\ total = 0
    /\ RangeSize >= 2
    /\ concurrency >= 1
    /\ permits = concurrency
    /\ \A p \in Range : p \in tasks /\ Ready(p)

\* C21: concurrency is not validated: with concurrency = 0 and a port
\* specification that parses, the run gets to its first acquire and stays
\* there; no probe is dispatched, nothing is reported, and the run neither
\* completes nor aborts nor returns.
C21_ZeroConcurrencyHangs ==
    (concurrency = 0 /\ Parsed /\ parsed.kind = "Ok") =>
        /\ pc = "acquire"
        /\ port = parsed.start
        /\ permits = 0
        /\ ~permit
        /\ Dispatched = {}
        /\ tasks = {}
        /\ reported = <<>>
        /\ total = 0
        /\ ~summary.printed
        /\ ret = Pending
        /\ runtime

\* a scan of three ports with concurrency 0 waits at its first acquire
C21_Witness ==
    /\ concurrency = 0
    /\ pc = "acquire"
    /\ RangeSize = 3
    /\ permits = 0

\* C22: the counters of the collection loop. After a result that is Open or
\* Closed has been collected, total = Len(open_ports) + closed_count; once a
\* failed result has been collected, total = Len(open_ports) + closed_count + 1,
\* because total is incremented before the result is classified; total never
\* exceeds the number of dispatched ports, and each collected result adds
\* exactly one to total.
C22_CountersDuringCollection ==
    /\ [](/\ pc # "aborted" => total = Len(open_ports) + closed_count
          /\ pc = "aborted" => total = Len(open_ports) + closed_count + 1
          /\ total <= Cardinality(Dispatched)
          /\ closed_count =
                Cardinality({i \in 1..Len(reported) : ~reported[i].open})
          /\ Len(open_ports) =
                Cardinality({i \in 1..Len(reported) : reported[i].open}))
    /\ [][/\ tasks' # tasks /\ pc = "collect" => total' = total + 1
          /\ total' # total =>
                /\ pc = "collect"
                /\ total' = total + 1
                /\ \/ /\ pc' = "collect"
                      /\ Len(open_ports') + closed_count' =
                            Len(open_ports) + closed_count + 1
                   \/ /\ pc' = "aborted"
                      /\ Len(open_ports') + closed_count' =
                            Len(open_ports) + closed_count]_vars

\* a failed result collected after an open and a closed one
C22_Witness ==
    /\ pc = "aborted"
    /\ Len(open_ports) = 1
    /\ closed_count = 1
    /\ total = 3
    /\ Cardinality(Dispatched) = 3

\* the ports of a sequence of ports
SetOf(seq) == {seq[i] : i \in 1..Len(seq)}

\* the ports of the range the network answered as open, and as closed
OpenAssigned == {p \in Range : IsOpen(conn[p])}
ClosedAssigned == {p \in Range : conn[p] \in ConnectResults /\ ~IsOpen(conn[p])}

\* C23: the final content of a completed scan is a function of the range and
\* of the Open/Closed answer of each port alone: total is the size of the
\* range, closed_count the number of ports that answered closed, and
\* open_ports holds exactly the ports that answered open, each once. Neither
\* the order in which the probes finish and are collected nor the concurrency
\* enters, so two completed scans with the same answers differ at most in the
\* order of open_ports.
C23_ContentIndependentOfSchedule ==
    pc = "completed" =>
        /\ concurrency >= 1
        /\ OpenAssigned \cup ClosedAssigned = Range
        /\ total = Cardinality(Range)
        /\ closed_count = Cardinality(ClosedAssigned)
        /\ SetOf(open_ports) = OpenAssigned
        /\ Len(open_ports) = Cardinality(OpenAssigned)
        /\ summary.total = Cardinality(Range)
        /\ summary.closed = Cardinality(ClosedAssigned)
        /\ summary.open = Cardinality(OpenAssigned)
        /\ SetOf(summary.list) = OpenAssigned

\* a completed scan with two probes in flight at once whose open ports were
\* collected against the port order
C23_Witness ==
    /\ pc = "completed"
    /\ concurrency = 2
    /\ RangeSize = 3
    /\ closed_count = 1
    /\ Len(open_ports) = 2
    /\ open_ports[1] > open_ports[2]

====
